---- MODULE Spec2Model ----
(***************************************************************************)
(* Jacobi relaxation of the 2D Laplace equation: the solver embedded in    *)
(* LaplaceScene.construct (src/main.py, lines 36-268), parameterised by    *)
(* the fields of RenderThread (lines 18-24).                               *)
(*                                                                         *)
(* Numbers.  The code computes in IEEE doubles.  With integer boundary     *)
(* values every grid value after k sweeps is an integer multiple of 4^-k,  *)
(* and for k <= MaxIters and the magnitudes below that is exactly          *)
(* representable in a double, so the double arithmetic is exact.  The model*)
(* holds every grid value x as the exact integer x * Scale, Scale =        *)
(* 4^MaxIters, written in two limbs <<hi, lo>> = hi * Base + lo with       *)
(* 0 <= lo < Base (x * Scale can exceed 32 bits), and 0.25 * (a+b+c+d) as  *)
(* the sum of the four quarters, which is exact because before sweep k     *)
(* (1-based) every value is a multiple of 4^(MaxIters-k+1).                *)
(***************************************************************************)
EXTENDS Integers, Sequences, FiniteSets, TLC

\* ---- bounds of the model ----
MaxN == 4
MaxVal == 1
MaxIters == 13
MaxClicks == 3

\* ---- program constants ----
\* "iteration > 10" (src/main.py:230)
MinIterations == 10

Scale == 4 ^ MaxIters

Edges == {"top", "bottom", "left", "right"}
Kinds == {"dirichlet", "neumann"}
Values == 0..MaxVal

\* boundary_conditions as built by get_boundary_conditions
BCSet == [Edges -> [type : Kinds, value : Values]]

\* max_iterations: below, at and above the minimum-iterations threshold
MaxIterChoices == {1, MinIterations + 1, MaxIters}
GridSizes == 3..MaxN

VARIABLES n, bc, tolerance, max_iterations,
          u, boundary_mask, converged, convergence_history,
          iteration, u_new, max_change, final_iteration, pc

\* the window and its render thread (LaplaceVisualizerGUI, RenderThread);
\* clicks, renders, emitted and enables count what has happened and are
\* read by no action
VARIABLES render_button, status_label, render_thread, events,
          clicks, renders, emitted, enables

gui == <<render_button, status_label, render_thread, events, clicks, renders, emitted,
         enables>>

vars == <<n, bc, tolerance, max_iterations, u, boundary_mask, converged,
          convergence_history, iteration, u_new, max_change, final_iteration, pc, gui>>

conf == <<n, bc, tolerance, max_iterations, boundary_mask>>

\* ---- exact numbers: <<hi, lo>> stands for (hi * Base + lo) / Scale ----
Base == 4 ^ 7
Norm(h, l) == <<h + (l \div Base), l % Base>>
Zero == <<0, 0>>
NAdd(x, y) == Norm(x[1] + y[1], x[2] + y[2])
NSub(x, y) == Norm(x[1] - y[1], x[2] - y[2])
NLess(x, y) == x[1] < y[1] \/ (x[1] = y[1] /\ x[2] < y[2])
Abs(x) == IF x[1] < 0 THEN NSub(Zero, x) ELSE x

\* 0.25 * x for an x that is a multiple of 4 / Scale
Quarter(x) == <<x[1] \div 4, (((x[1] % 4) * Base) + x[2]) \div 4>>

\* the number v, for an integer v
Sc(v) == <<v * (Scale \div Base), 0>>

\* tolerance: 4^-4 (about 3.9e-3) and 4^-6 (about 2.4e-4)
TolChoices == {Quarter(Quarter(Quarter(Quarter(Sc(1))))),
               Quarter(Quarter(Quarter(Quarter(Quarter(Quarter(Sc(1)))))))}

IsDirichlet(b, e) == b[e].type = "dirichlet"
IsNeumann(b, e) == b[e].type = "neumann"

\* np.zeros((n, n))
Zeros(m) == [i \in 0..(m - 1) |-> [j \in 0..(m - 1) |-> Zero]]

\* g[r, :] = v
SetRow(g, r, v, m) == [g EXCEPT ![r] = [j \in 0..(m - 1) |-> v]]

\* g[:, c] = v
SetCol(g, c, v, m) == [i \in 0..(m - 1) |-> [g[i] EXCEPT ![c] = v]]

\* a plausible slip: left and right stamped before top and bottom
StampDirichletRowsLast(m, b) ==
    LET g0 == Zeros(m)
        g1 == IF IsDirichlet(b, "left") THEN SetCol(g0, 0, Sc(b["left"].value), m) ELSE g0
        g2 == IF IsDirichlet(b, "right") THEN SetCol(g1, m - 1, Sc(b["right"].value), m) ELSE g1
        g3 == IF IsDirichlet(b, "top") THEN SetRow(g2, 0, Sc(b["top"].value), m) ELSE g2
        g4 == IF IsDirichlet(b, "bottom") THEN SetRow(g3, m - 1, Sc(b["bottom"].value), m) ELSE g3
    IN g4

\* lines 40-54: zero grid, then top, bottom, left, right stamped in this order
StampDirichlet(m, b) ==
    LET g0 == Zeros(m)
        g1 == IF IsDirichlet(b, "top") THEN SetRow(g0, 0, Sc(b["top"].value), m) ELSE g0
        g2 == IF IsDirichlet(b, "bottom") THEN SetRow(g1, m - 1, Sc(b["bottom"].value), m) ELSE g1
        g3 == IF IsDirichlet(b, "left") THEN SetCol(g2, 0, Sc(b["left"].value), m) ELSE g2
        g4 == IF IsDirichlet(b, "right") THEN SetCol(g3, m - 1, Sc(b["right"].value), m) ELSE g3
    IN g4

\* lines 59-67: boundary_mask
BoundaryMask(m, b) ==
    LET f0 == [i \in 0..(m - 1) |-> [j \in 0..(m - 1) |-> FALSE]]
        f1 == IF IsDirichlet(b, "top") THEN SetRow(f0, 0, TRUE, m) ELSE f0
        f2 == IF IsDirichlet(b, "bottom") THEN SetRow(f1, m - 1, TRUE, m) ELSE f1
        f3 == IF IsDirichlet(b, "left") THEN SetCol(f2, 0, TRUE, m) ELSE f2
        f4 == IF IsDirichlet(b, "right") THEN SetCol(f3, m - 1, TRUE, m) ELSE f3
    IN f4

\* Gauss-Seidel slip: the stencil reads the grid being written
StencilInPlace(un, uo, i, j) ==
    NAdd(NAdd(Quarter(un[i + 1][j]), Quarter(un[i - 1][j])),
         NAdd(Quarter(un[i][j + 1]), Quarter(un[i][j - 1])))

\* line 211: 0.25 * (u[i+1, j] + u[i-1, j] + u[i, j+1] + u[i, j-1])
Stencil(un, uo, i, j) ==
    NAdd(NAdd(Quarter(uo[i + 1][j]), Quarter(uo[i - 1][j])),
         NAdd(Quarter(uo[i][j + 1]), Quarter(uo[i][j - 1])))

\* lines 208-211: the two nested loops over range(1, n-1), cell k in row-major order
RECURSIVE InteriorLoop(_, _, _, _, _)
InteriorLoop(un, uo, mask, m, k) ==
    IF m < 3 \/ k >= (m - 2) * (m - 2)
    THEN un
    ELSE LET i == 1 + (k \div (m - 2))
             j == 1 + (k % (m - 2))
         IN InteriorLoop(IF ~mask[i][j]
                         THEN [un EXCEPT ![i][j] = Stencil(un, uo, i, j)]
                         ELSE un,
                         uo, mask, m, k + 1)

\* a slip: the slice covers the whole edge, corners included
EdgeSliceFull(m) == 0..(m - 1)

\* the slice 1:-1 of an edge
EdgeSlice(m) == 1..(m - 2)

\* line 216: u_new[0, 1:-1] = u_new[1, 1:-1] + g
NeumannTop(un, m, g) ==
    [un EXCEPT ![0] = [j \in 0..(m - 1) |-> IF j \in EdgeSlice(m) THEN NAdd(un[1][j], g) ELSE un[0][j]]]

\* a slip: the bottom edge adds the gradient
NeumannBottomAdds(un, m, g) ==
    [un EXCEPT ![m - 1] = [j \in 0..(m - 1) |->
        IF j \in EdgeSlice(m) THEN NAdd(un[m - 2][j], g) ELSE un[m - 1][j]]]

\* line 218: u_new[-1, 1:-1] = u_new[-2, 1:-1] - g
NeumannBottom(un, m, g) ==
    [un EXCEPT ![m - 1] = [j \in 0..(m - 1) |->
        IF j \in EdgeSlice(m) THEN NSub(un[m - 2][j], g) ELSE un[m - 1][j]]]

\* line 220: u_new[1:-1, 0] = u_new[1:-1, 1] + g
NeumannLeft(un, m, g) ==
    [i \in 0..(m - 1) |-> IF i \in EdgeSlice(m) THEN [un[i] EXCEPT ![0] = NAdd(un[i][1], g)] ELSE un[i]]

\* line 222: u_new[1:-1, -1] = u_new[1:-1, -2] - g
NeumannRight(un, m, g) ==
    [i \in 0..(m - 1) |->
        IF i \in EdgeSlice(m) THEN [un[i] EXCEPT ![m - 1] = NSub(un[i][m - 2], g)] ELSE un[i]]

\* lines 215-222: the four updates in the order top, bottom, left, right
ApplyNeumann(un, b, m) ==
    LET g1 == IF IsNeumann(b, "top") THEN NeumannTop(un, m, Sc(b["top"].value)) ELSE un
        g2 == IF IsNeumann(b, "bottom") THEN NeumannBottom(g1, m, Sc(b["bottom"].value)) ELSE g1
        g3 == IF IsNeumann(b, "left") THEN NeumannLeft(g2, m, Sc(b["left"].value)) ELSE g2
        g4 == IF IsNeumann(b, "right") THEN NeumannRight(g3, m, Sc(b["right"].value)) ELSE g3
    IN g4

\* line 227: np.max(np.abs(u_new - u))
MaxAbsDiff(a, b, m) ==
    LET D == {Abs(NSub(a[i][j], b[i][j])) : i \in 0..(m - 1), j \in 0..(m - 1)}
    IN CHOOSE x \in D : \A y \in D : ~NLess(x, y)

\* a slip: the minimum-iterations test is off by one
ConvergenceConditionEarly(mc, tol, it) == NLess(mc, tol) /\ it >= MinIterations

\* line 230: max_change < tolerance and iteration > 10
ConvergenceCondition(mc, tol, it) == NLess(mc, tol) /\ it > MinIterations

\* a slip: range(max_iterations + 1)
InRangeInclusive(it, maxit) == it <= maxit

\* line 204: iteration in range(max_iterations)
InRange(it, maxit) == it < maxit

\* a slip: the break is missing
BreakNever(c) == FALSE

\* lines 258-260: if converged: break
BreakTaken(c) == c

\* lines 447-458: the window as constructed: button enabled, no render thread
GuiIdle ==
    /\ render_button = TRUE
    /\ status_label = "Ready to generate visualization"
    /\ render_thread = [pos |-> "none", outcome |-> "none"]
    /\ events = <<>>
    /\ clicks = 0
    /\ renders = 0
    /\ emitted = 0
    /\ enables = 0

\* the state the loop is entered in (lines 38-67 and 197-200); iteration,
\* u_new, max_change and final_iteration are unbound there and never read
\* before they are assigned
InitWith(m, b, tol, maxit) ==
    /\ n = m
    /\ bc = b
    /\ tolerance = tol
    /\ max_iterations = maxit
    /\ u = StampDirichlet(m, b)
    /\ boundary_mask = BoundaryMask(m, b)
    /\ converged = FALSE
    /\ convergence_history = <<>>
    /\ iteration = -1
    /\ u_new = StampDirichlet(m, b)
    /\ max_change = Zero
    /\ final_iteration = 0
    /\ pc = "for"
    /\ GuiIdle

\* configurations inside the solver's contract
Init ==
    \E m \in GridSizes, b \in BCSet, tol \in TolChoices, maxit \in MaxIterChoices :
        InitWith(m, b, tol, maxit)

\* RenderThread.__init__ stores whatever it is given (lines 18-24)
InitAny ==
    \E m \in {2} \cup GridSizes, b \in BCSet, tol \in {Zero} \cup TolChoices,
       maxit \in {0} \cup MaxIterChoices :
        InitWith(m, b, tol, maxit)

\* lines 204-224: the loop takes its next index, copies the grid, sweeps the
\* interior and applies the Neumann edge updates to the copy
SweepGuard == pc = "for" /\ InRange(iteration + 1, max_iterations)

Sweep ==
    /\ SweepGuard
    /\ iteration' = iteration + 1
    /\ u_new' = ApplyNeumann(InteriorLoop(u, u, boundary_mask, n, 0), bc, n)
    /\ pc' = "check"
    /\ UNCHANGED <<conf, u, converged, convergence_history, max_change, final_iteration, gui>>

\* line 204: the range is exhausted; lines 263-268 follow
ExhaustedGuard == pc = "for" /\ ~InRange(iteration + 1, max_iterations)

Exhausted ==
    /\ ExhaustedGuard
    /\ pc' = "done"
    /\ UNCHANGED <<conf, u, converged, convergence_history, iteration, u_new, max_change,
                   final_iteration, gui>>

\* lines 226-234 and 258-260: max_change, the history, the convergence test,
\* u = u_new, and the break
CheckGuard == pc = "check"

Check ==
    /\ CheckGuard
    /\ LET mc == MaxAbsDiff(u_new, u, n)
           cv == ConvergenceCondition(mc, tolerance, iteration)
       IN /\ max_change' = mc
          /\ convergence_history' = Append(convergence_history, mc)
          /\ converged' = (converged \/ cv)
          /\ final_iteration' = IF cv THEN iteration + 1 ELSE final_iteration
    /\ u' = u_new
    /\ pc' = IF BreakTaken(converged') THEN "done" ELSE "for"
    /\ UNCHANGED <<conf, iteration, u_new, gui>>

Next == Sweep \/ Exhausted \/ Check

Spec == Init /\ [][Next]_vars

SpecAny == InitAny /\ [][Next]_vars

\* ---- the render thread and the window (lines 13-31, 327-353, 468-499) ----
solver == <<conf, u, converged, convergence_history, iteration, u_new, max_change,
            final_iteration, pc>>

\* how subprocess.run ends (lines 333-353): return code 0, another return
\* code, TimeoutExpired, any other exception
RendererOutcomes == {"zero", "nonzero", "timeout", "exception"}

\* a slip: no handler for the timeout
EmissionNoTimeout(o) ==
    IF o = "zero" THEN <<"finished">> ELSE IF o = "timeout" THEN <<>> ELSE <<"error">>

\* lines 342-353: the signal each way out of run emits
Emission(o) == IF o = "zero" THEN <<"finished">> ELSE <<"error">>

\* line 469: self.render_thread and self.render_thread.isRunning()
IsRunning(t) == t.pos \in {"begin", "scene", "emitted"}

\* lines 468-470: start_render returns at once
StartRenderIgnored ==
    /\ render_button
    /\ clicks < MaxClicks
    /\ IsRunning(render_thread)
    /\ clicks' = clicks + 1
    /\ UNCHANGED <<solver, render_button, status_label, render_thread, events, renders,
                   emitted, enables>>

\* lines 468-486: start_render disables the button and starts a thread
StartRender ==
    /\ render_button
    /\ clicks < MaxClicks
    /\ ~IsRunning(render_thread)
    /\ clicks' = clicks + 1
    /\ render_button' = FALSE
    /\ status_label' = "Starting render..."
    /\ render_thread' = [pos |-> "begin", outcome |-> "none"]
    /\ renders' = renders + 1
    /\ emitted' = 0
    /\ enables' = 0
    /\ UNCHANGED <<solver, events>>

\* lines 27-31 and 327-328: progress, then the scene file is written
RunCreateScene ==
    /\ render_thread.pos = "begin"
    /\ events' = Append(events, "Creating Manim scene...")
    /\ render_thread' = [render_thread EXCEPT !.pos = "scene"]
    /\ UNCHANGED <<solver, render_button, status_label, clicks, renders, emitted, enables>>

\* lines 27-31 and 352-353: the scene file cannot be written
RunCreateFails ==
    /\ render_thread.pos = "begin"
    /\ events' = events \o <<"Creating Manim scene...">> \o Emission("exception")
    /\ emitted' = emitted + Len(Emission("exception"))
    /\ render_thread' = [pos |-> "emitted", outcome |-> "no_scene"]
    /\ UNCHANGED <<solver, render_button, status_label, clicks, renders, enables>>

\* lines 330-353: progress, the renderer runs and ends one of four ways
RunRenderer ==
    /\ render_thread.pos = "scene"
    /\ \E o \in RendererOutcomes :
          /\ events' = events \o <<"Running Manim renderer...">> \o Emission(o)
          /\ emitted' = emitted + Len(Emission(o))
          /\ render_thread' = [pos |-> "emitted", outcome |-> o]
    /\ UNCHANGED <<solver, render_button, status_label, clicks, renders, enables>>

\* run returns and the thread ends: isRunning() is False from here on
RunReturn ==
    /\ render_thread.pos = "emitted"
    /\ render_thread' = [render_thread EXCEPT !.pos = "returned"]
    /\ UNCHANGED <<solver, render_button, status_label, events, clicks, renders, emitted,
                   enables>>

\* lines 488-499: the event loop delivers the oldest queued signal to
\* on_progress, on_render_finished or on_render_error
Deliver ==
    /\ events # <<>>
    /\ events' = Tail(events)
    /\ IF Head(events) = "finished"
       THEN /\ render_button' = TRUE
            /\ status_label' = "Animation completed! Check the media folder for output."
            /\ enables' = enables + 1
       ELSE IF Head(events) = "error"
       THEN /\ render_button' = TRUE
            /\ status_label' = "Error occurred - check console for details"
            /\ enables' = enables + 1
       ELSE /\ status_label' = Head(events)
            /\ UNCHANGED <<render_button, enables>>
    /\ UNCHANGED <<solver, render_thread, clicks, renders, emitted>>

ThreadStep == RunCreateScene \/ RunCreateFails \/ RunRenderer \/ RunReturn

RenderNext == StartRenderIgnored \/ StartRender \/ ThreadStep \/ Deliver

\* the window at start-up; the solver runs inside the renderer's process, and
\* its variables stand still here
RenderInit ==
    InitWith(3, [e \in Edges |-> [type |-> "dirichlet", value |-> 0]],
             CHOOSE t \in TolChoices : TRUE, 1)

\* a started thread is scheduled and subprocess.run returns or times out
\* (timeout=300); the event loop delivers every queued signal
RenderSpec ==
    RenderInit /\ [][RenderNext]_vars /\ WF_vars(ThreadStep) /\ WF_vars(Deliver)

\* lines 263-268: the count the final message reports
iterations_run == IF converged THEN final_iteration ELSE max_iterations

\* sweeps whose bookkeeping (lines 226-234) is complete
CompletedSweeps == IF pc = "check" THEN iteration ELSE iteration + 1

Idx == 0..(n - 1)
Interior == 1..(n - 2)

TypeOK ==
    /\ pc \in {"for", "check", "done"}
    /\ converged \in BOOLEAN
    /\ iteration \in -1..MaxIters
    /\ \A i \in Idx, j \in Idx :
          /\ u[i][j][2] \in 0..(Base - 1)
          /\ u_new[i][j][2] \in 0..(Base - 1)

\* the quarters taken by the sweep are exact
QuartersExact ==
    (pc = "for" /\ iteration + 1 < max_iterations) =>
        \A i \in Idx, j \in Idx : u[i][j][2] % 4 = 0 /\ (Base % 4 = 0)

Last(h) == h[Len(h)]

\* the four corners of the grid
Corners == {<<0, 0>>, <<0, n - 1>>, <<n - 1, 0>>, <<n - 1, n - 1>>}

\* the grid right after the stamping of lines 46-54
Stamped == StampDirichlet(n, bc)

\* ---------------------------------------------------------------------
\* C1: every cell the boundary mask marks Dirichlet holds its stamped
\* value in the current grid at every point of the run, and in the grid
\* built by the interior sweep and the Neumann edge updates.
C1_DirichletCellsFixed ==
    \A i \in Idx, j \in Idx :
        boundary_mask[i][j] =>
            /\ u[i][j] = Stamped[i][j]
            /\ (pc = "check" => u_new[i][j] = Stamped[i][j])

\* a finished run of several sweeps with a non-zero Dirichlet edge next to a
\* Neumann edge with a non-zero gradient, whose shared corner is masked
C1_Witness ==
    /\ pc = "done"
    /\ Len(convergence_history) >= 2
    /\ IsDirichlet(bc, "left") /\ bc["left"].value = 1
    /\ IsNeumann(bc, "top") /\ bc["top"].value = 1
    /\ boundary_mask[0][0]
    /\ u[0][1] # Stamped[0][1]

\* ---------------------------------------------------------------------
\* C2: whenever converged is True, the last entry of convergence_history
\* is strictly below tolerance, the loop index at which convergence was
\* declared is above 10, and iterations_run > 11.
C2_ConvergenceThreshold ==
    converged =>
        /\ Len(convergence_history) > 0
        /\ NLess(Last(convergence_history), tolerance)
        /\ iteration > 10
        /\ iterations_run > 11

\* a converged run on a zero field with four insulated edges: max_change is
\* 0 from the first sweep on, and convergence still waits for index 11
C2_Witness ==
    /\ pc = "done"
    /\ converged
    /\ \A e \in Edges : IsNeumann(bc, e) /\ bc[e].value = 0
    /\ convergence_history[1] = Zero
    /\ iterations_run = 12

\* ---------------------------------------------------------------------
\* C3: the loop terminates (every step lowers a non-negative variant and
\* in every state short of the end the guard of a step holds); never more than max_iterations
\* sweeps are performed; at termination iterations_run <= max_iterations
\* and a run that is not converged has performed exactly max_iterations
\* sweeps; a run with max_iterations <= 11 is never converged.
C3_Variant ==
    IF pc = "done" THEN 0
    ELSE IF pc = "check" THEN 2 * (max_iterations - iteration)
    ELSE 2 * (max_iterations - iteration - 1) + 1

C3_IterationCount ==
    /\ [](/\ C3_Variant >= 0
          /\ (pc # "done" => (SweepGuard \/ ExhaustedGuard \/ CheckGuard))
          /\ Len(convergence_history) <= max_iterations
          /\ (max_iterations <= 11 => ~converged)
          /\ (pc = "done" =>
                /\ iterations_run <= max_iterations
                /\ (~converged =>
                      /\ Len(convergence_history) = max_iterations
                      /\ iteration + 1 = max_iterations)))
    /\ [][C3_Variant' < C3_Variant]_vars

\* a run that exhausts a cap above the minimum-iterations threshold
C3_Witness ==
    /\ pc = "done"
    /\ ~converged
    /\ max_iterations = MaxIters
    /\ Len(convergence_history) = MaxIters

\* ---------------------------------------------------------------------
\* C4 (as claimed): with all four edges Dirichlet at the same value V, the
\* max_change recorded for the first sweep is 0 and the field after the
\* first sweep is uniform V.
AllDirichletSame(v) == \A e \in Edges : IsDirichlet(bc, e) /\ bc[e].value = v

Uniform(g, x) == \A i \in Idx, j \in Idx : g[i][j] = x

\* the field after exactly one completed sweep is the current grid
AfterFirstSweep == Len(convergence_history) = 1 /\ pc # "check"

C4_Claimed ==
    \A v \in Values :
        (AllDirichletSame(v) /\ Len(convergence_history) >= 1) =>
            /\ convergence_history[1] = Zero
            /\ (AfterFirstSweep => Uniform(u, Sc(v)))

\* how many of the four neighbours of (i, j) lie on the boundary
OnBoundary(i, j) == i = 0 \/ j = 0 \/ i = n - 1 \/ j = n - 1
BoundaryNeighbours(i, j) ==
    Cardinality({c \in {<<i + 1, j>>, <<i - 1, j>>, <<i, j + 1>>, <<i, j - 1>>} :
                    OnBoundary(c[1], c[2])})

RECURSIVE Times(_, _)
Times(k, x) == IF k = 0 THEN Zero ELSE NAdd(x, Times(k - 1, x))

\* C4 (amended): with all four edges Dirichlet at the same value V, after the
\* first sweep every boundary cell holds V and every interior cell holds
\* V * k / 4, k the number of its neighbours on the boundary (the grid starts
\* at zero); so the field is uniform V exactly when V = 0 or n = 3, and the
\* max_change recorded for the first sweep is |V| for n = 3 and |V| / 2 for
\* n >= 4, which is 0 only for V = 0.
C4_FirstSweep ==
    \A v \in Values :
        (AllDirichletSame(v) /\ Len(convergence_history) >= 1) =>
            /\ convergence_history[1] =
                 IF n = 3 THEN Abs(Sc(v)) ELSE Times(2, Quarter(Abs(Sc(v))))
            /\ (convergence_history[1] = Zero <=> v = 0)
            /\ (AfterFirstSweep =>
                  /\ \A i \in Idx, j \in Idx :
                        u[i][j] = IF OnBoundary(i, j) THEN Sc(v)
                                  ELSE Times(BoundaryNeighbours(i, j), Quarter(Sc(v)))
                  /\ (Uniform(u, Sc(v)) <=> (v = 0 \/ n = 3)))

\* the first sweep of a 4 x 4 grid with all edges Dirichlet at 1 has been done
C4_Witness ==
    /\ AllDirichletSame(1)
    /\ n = 4
    /\ AfterFirstSweep
    /\ u[1][1] = Times(2, Quarter(Sc(1)))

\* ---------------------------------------------------------------------
\* C5 (as claimed): a configuration with grid_size < 3, tolerance <= 0 or
\* max_iterations <= 0 performs no sweep, appends nothing to
\* convergence_history and produces no result.
InvalidConfiguration == n < 3 \/ ~NLess(Zero, tolerance) \/ max_iterations <= 0

C5_Claimed ==
    InvalidConfiguration =>
        /\ pc = "for"
        /\ iteration = -1
        /\ convergence_history = <<>>

\* an invalid configuration that ran to a result
C5_Reached == InvalidConfiguration /\ pc = "done" /\ n = 2 /\ Len(convergence_history) > 0

\* ---------------------------------------------------------------------
\* C6 (as claimed): with all four edges Dirichlet the field after every
\* sweep is invariant, at every cell, corners included, under each
\* reflection of the square that maps the boundary configuration to itself.
AllDirichlet == \A e \in Edges : IsDirichlet(bc, e)
EdgeValue(e) == bc[e].value

Mean(g, i, j) ==
    NAdd(NAdd(Quarter(g[i + 1][j]), Quarter(g[i - 1][j])),
         NAdd(Quarter(g[i][j + 1]), Quarter(g[i][j - 1])))

NeumannWritten(i, j) ==
    \/ (i = 0 /\ j \in Interior /\ IsNeumann(bc, "top"))
    \/ (i = n - 1 /\ j \in Interior /\ IsNeumann(bc, "bottom"))
    \/ (j = 0 /\ i \in Interior /\ IsNeumann(bc, "left"))
    \/ (j = n - 1 /\ i \in Interior /\ IsNeumann(bc, "right"))

C7_JacobiSweep ==
    pc = "check" =>
        \A i \in Idx, j \in Idx :
            /\ ((i \in Interior /\ j \in Interior /\ ~boundary_mask[i][j])
                    => u_new[i][j] = Mean(u, i, j))
            /\ ((~(i \in Interior /\ j \in Interior) /\ ~NeumannWritten(i, j))
                    => u_new[i][j] = u[i][j])

\* a later sweep of a 4 x 4 grid whose interior cells differ and still move
C7_Witness ==
    /\ pc = "check"
    /\ n = 4
    /\ iteration >= 2
    /\ u_new[1][1] # u[1][1]
    /\ u_new[1][1] # u_new[1][2]
    /\ \E e \in Edges : IsNeumann(bc, e)

CornerEdges(c) ==
    {IF c[1] = 0 THEN "top" ELSE "bottom", IF c[2] = 0 THEN "left" ELSE "right"}

EdgeRelation(g) ==
    \A k \in Interior :
        /\ (IsNeumann(bc, "top") => g[0][k] = NAdd(g[1][k], Sc(EdgeValue("top"))))
        /\ (IsNeumann(bc, "bottom") => g[n - 1][k] = NSub(g[n - 2][k], Sc(EdgeValue("bottom"))))
        /\ (IsNeumann(bc, "left") => g[k][0] = NAdd(g[k][1], Sc(EdgeValue("left"))))
        /\ (IsNeumann(bc, "right") => g[k][n - 1] = NSub(g[k][n - 2], Sc(EdgeValue("right"))))

C9_NeumannEdges ==
    /\ (pc = "check" => EdgeRelation(u_new))
    /\ (Len(convergence_history) >= 1 => EdgeRelation(u))

\* several sweeps done with a bottom edge of gradient 1 over a moving interior
C9_Witness ==
    /\ IsNeumann(bc, "bottom") /\ EdgeValue("bottom") = 1
    /\ IsDirichlet(bc, "top") /\ EdgeValue("top") = 1
    /\ pc = "for"
    /\ Len(convergence_history) >= 2
    /\ u[n - 2][1] # Zero
    /\ u[n - 1][1] = NSub(u[n - 2][1], Sc(1))

\* ---------------------------------------------------------------------
\* C10: convergence_history is append-only and gets exactly one entry per
\* performed sweep: its length equals the number of completed sweeps at
\* every point and iterations_run at termination; the entry of the
\* converging sweep is included and nothing is appended once converged.
C10_History ==
    /\ [](/\ Len(convergence_history) = CompletedSweeps
          /\ (pc = "done" => Len(convergence_history) = iterations_run)
          /\ (converged => Len(convergence_history) = final_iteration))
    /\ [][/\ \/ convergence_history' = convergence_history
             \/ /\ Len(convergence_history') = Len(convergence_history) + 1
                /\ SubSeq(convergence_history', 1, Len(convergence_history))
                     = convergence_history
          /\ (converged => convergence_history' = convergence_history)]_vars

\* a run that converged before its cap: the break cut the loop short
C10_Witness ==
    /\ pc = "done"
    /\ converged
    /\ final_iteration < max_iterations
    /\ Len(convergence_history) = 12

\* ---------------------------------------------------------------------
\* C11: every run of the render thread emits exactly one of finished and
\* error, whichever way the renderer ends, and the button, disabled by
\* start_render, is re-enabled exactly once per run, and eventually;
\* start_render invoked while the thread is running starts no thread and
\* changes nothing.
TerminalSignals(q) == Len(SelectSeq(q, LAMBDA e : e \in {"finished", "error"}))

C11_RenderSignals ==
    /\ [](/\ emitted <= 1
          /\ enables <= emitted
          /\ TerminalSignals(events) = emitted - enables
          /\ (render_thread.pos \in {"begin", "scene"} => emitted = 0)
          /\ (render_thread.pos \in {"emitted", "returned"} => emitted = 1)
          /\ (render_thread.pos # "none" => (render_button <=> enables = 1)))
    /\ [][(clicks' # clicks /\ render_thread.pos \in {"begin", "scene", "emitted"})
            => UNCHANGED <<render_button, status_label, render_thread, events, renders,
                           emitted, enables>>]_vars
    /\ ((~render_button) ~> render_button)

\* a second render that timed out, its button re-enabled, after a click that
\* start_render ignored while the first thread was still running
C11_Witness ==
    /\ renders = 2
    /\ clicks = 3
    /\ render_thread = [pos |-> "returned", outcome |-> "timeout"]
    /\ events = <<>>
    /\ render_button
    /\ enables = 1

====
